---- MODULE Spec2Model ----
(***************************************************************************)
(* Model of archlinux/aur/Package/pkgbuild.py: the Package class that      *)
(* loads a PKGBUILD through an external evaluator (load) and validates    *)
(* the extracted field mapping (validate / is_valid).                     *)
(*                                                                         *)
(* A Python string is a string, a Python list a sequence of strings; both *)
(* are falsy exactly when empty (Len applies to either).  The dictionary  *)
(* self._data is a function whose domain is the set of keys present; a    *)
(* lookup of a key outside the domain raises KeyError.                     *)
(***************************************************************************)
EXTENDS Naturals, Sequences, FiniteSets, TLC

VARIABLES
    _data,        \* self._data: the field mapping
    _validated,   \* self._validated
    _is_valid,    \* self._is_valid
    _errors,      \* self._errors
    _warnings,    \* self._warnings
    ret,          \* outcome of the last method call, as its caller sees it
    verdicts,     \* the values is_valid() has returned so far, in order
    writes,       \* number of __setitem__ calls made
    validates,    \* number of validate() calls made by the caller
    queries,      \* number of is_valid() calls made by the caller
    pc,           \* load(): position of the parent in load()
    file,         \* load(): the input path and what it names
    evaluator,    \* load(): what parsepkgbuild.sh does when it is run
    fs,           \* load(): what exists of the temporary directory
    is_temporary, \* load(): local flag is_temporary
    child,        \* load(): state of the evaluator subprocess
    written,      \* load(): number of output lines the child has written
    pipe,         \* load(): lines in the stdout pipe buffer, not yet read
    lines         \* load(): lines returned by readlines(), not yet exec'd

pkgvars  == <<_data, _validated, _is_valid, _errors, _warnings>>
obsvars  == <<ret, verdicts, writes, validates, queries>>
loadvars == <<pc, file, evaluator, fs, is_temporary, child, written, pipe, lines>>
vars     == <<_data, _validated, _is_valid, _errors, _warnings,
              ret, verdicts, writes, validates, queries,
              pc, file, evaluator, fs, is_temporary, child, written, pipe, lines>>

(***************************************************************************)
(* Bounds of the model.                                                    *)
(***************************************************************************)
MaxNameLen  == 2    \* longest package name enumerated
MaxSrc      == 2    \* longest source / checksum list enumerated
MaxWrites   == 2    \* __setitem__ calls per instance
MaxValidate == 1    \* explicit validate() calls per instance
MaxQueries  == 2    \* is_valid() calls per instance
MaxMembers  == 2    \* members of an archive
MaxLines    == 3    \* output lines of the evaluator
PipeCap     == 2    \* lines the OS pipe buffer holds before a write blocks

(***************************************************************************)
(* Fields.                                                                 *)
(***************************************************************************)
\* self._required_fields, in the order validate() visits them
_required_fields ==
    <<"name", "description", "version", "release", "licenses", "arch">>

\* the checksum tuple of validate(), in order
ChecksumFields ==
    <<"md5sums", "sha1sums", "sha256sums", "sha384sums", "sha512sums">>

Range(s) == {s[i] : i \in DOMAIN s}

Keys == Range(_required_fields) \cup {"source"} \cup Range(ChecksumFields)

\* Python truthiness of a string or list: `if x` / `not x`
Truthy(v) == Len(v) > 0

\* the i-th character of a string
Char(str, i) == SubSeq(str, i, i)

(***************************************************************************)
(* The two regular expressions of validate().                              *)
(***************************************************************************)
LowerChars == {"a"}
UpperChars == {"B"}
DigitChars == {"1"}

\* the class [\w\d_-] (Python 2 `re`, no flags: \w is [a-zA-Z0-9_])
WordClass == LowerChars \cup UpperChars \cup DigitChars \cup {"_", "-"}

\* the class [a-z\d_-]
LowerClass == LowerChars \cup DigitChars \cup {"_", "-"}

\* re.compile("^[\w\d_-]+$").match(name): one or more class characters from
\* the start, then the end of the string; `$` also matches just before a
\* newline that ends the string.
MatchAlnum(name) ==
    \E n \in 1..Len(name) :
        /\ \A i \in 1..n : Char(name, i) \in WordClass
        /\ \/ n = Len(name)
           \/ n + 1 = Len(name) /\ Char(name, Len(name)) = "\n"

\* re.compile("[a-z\d_-]+").match(name): match() anchors at the start only,
\* so a non-empty prefix in the class is enough.
MatchLower(name) ==
    \E n \in 1..Len(name) : \A i \in 1..n : Char(name, i) \in LowerClass

DescLimit == 80

\* variant of DescTooLong: the limit taken as exclusive
DescTooLongOffByOne(desc) == Len(desc) >= DescLimit

\* len(self._data['description']) > 80
DescTooLong(desc) == Len(desc) > DescLimit

(***************************************************************************)
(* validate(), lines 76-103, as one run over the mapping d starting from   *)
(* the error and warning lists errs and warns.  Each stage returns the     *)
(* lists as they are when it ends and whether a KeyError left it.          *)
(***************************************************************************)
RequiredMsg(field) == field \o " field is required"
NameMsg      == "package name must be alphanumeric"
LowerMsg     == "package name should be in lower case"
DescMsg      == "description should not exceed 80 characters"
AmountMsg(checksum) == "amount of " \o checksum \o " and sources does not match"
NoSumsMsg    == "sources exist without checksums"

\* for field in self._required_fields: if not self._data[field]: append
RECURSIVE RequiredLoop(_, _, _)
RequiredLoop(d, errs, i) ==
    IF i > Len(_required_fields) THEN [errors |-> errs, raised |-> FALSE]
    ELSE LET field == _required_fields[i] IN
         IF field \notin DOMAIN d THEN [errors |-> errs, raised |-> TRUE]
         ELSE RequiredLoop(d,
                  IF ~Truthy(d[field]) THEN Append(errs, RequiredMsg(field))
                  ELSE errs,
                  i + 1)

\* variant of LengthsDiffer: only too few checksums count
LengthsDifferShorter(sums, sources) == Len(sums) < Len(sources)

\* len(self._data[checksum]) != len(self._data['source'])
LengthsDiffer(sums, sources) == Len(sums) # Len(sources)

\* for checksum in (...): if self._data[checksum]: found_sums = True; compare
RECURSIVE ChecksumLoop(_, _, _, _)
ChecksumLoop(d, errs, found, i) ==
    IF i > Len(ChecksumFields)
    THEN [errors |-> errs, found_sums |-> found, raised |-> FALSE]
    ELSE LET checksum == ChecksumFields[i] IN
         IF checksum \notin DOMAIN d
         THEN [errors |-> errs, found_sums |-> found, raised |-> TRUE]
         ELSE IF ~Truthy(d[checksum])
         THEN ChecksumLoop(d, errs, found, i + 1)
         ELSE IF "source" \notin DOMAIN d
         THEN [errors |-> errs, found_sums |-> TRUE, raised |-> TRUE]
         ELSE ChecksumLoop(d,
                  IF LengthsDiffer(d[checksum], d["source"])
                  THEN Append(errs, AmountMsg(checksum)) ELSE errs,
                  TRUE, i + 1)

ValidateRun(d, errs, warns) ==
    LET req == RequiredLoop(d, errs, 1) IN
    IF req.raised
    THEN [errors |-> req.errors, warnings |-> warns, raised |-> TRUE]
    ELSE
    LET name  == d["name"]
        desc  == d["description"]
        e2    == IF ~MatchAlnum(name) THEN Append(req.errors, NameMsg)
                 ELSE req.errors
        w2    == IF MatchAlnum(name) /\ ~MatchLower(name)
                 THEN Append(warns, LowerMsg) ELSE warns
        w3    == IF Truthy(desc) /\ DescTooLong(desc)
                 THEN Append(w2, DescMsg) ELSE w2
        sums  == ChecksumLoop(d, e2, FALSE, 1)
    IN
    IF sums.raised
    THEN [errors |-> sums.errors, warnings |-> w3, raised |-> TRUE]
    ELSE IF "source" \notin DOMAIN d
    THEN [errors |-> sums.errors, warnings |-> w3, raised |-> TRUE]
    ELSE [errors   |-> IF Truthy(d["source"]) /\ ~sums.found_sums
                       THEN Append(sums.errors, NoSumsMsg) ELSE sums.errors,
          warnings |-> w3,
          raised   |-> FALSE]

\* has_errors(): len(self._errors) > 0
has_errors(errs) == Len(errs) > 0

\* validate(), lines 100-103: the flags after the run.  A KeyError leaves the
\* method before line 101, with whatever was appended so far.
validate(d, validated, is_valid, errs, warns) ==
    LET run == ValidateRun(d, errs, warns) IN
    [errors    |-> run.errors,
     warnings  |-> run.warnings,
     exc       |-> IF run.raised THEN "KeyError" ELSE "none",
     validated |-> IF run.raised THEN validated ELSE TRUE,
     is_valid  |-> IF ~run.raised /\ ~has_errors(run.errors) THEN TRUE
                   ELSE is_valid]

\* variant of NeedsValidation: the cached flag is not consulted
NeedsValidationAlways(validated) == TRUE

\* is_valid(), line 108: `if not self._validated`
NeedsValidation(validated) == ~validated

(***************************************************************************)
(* Values the model enumerates.                                            *)
(***************************************************************************)
Seqs(S, n) == UNION {[1..k -> S] : k \in 0..n}

\* the string "x" * n
RECURSIVE Str(_)
Str(n) == IF n = 0 THEN "" ELSE Str(n - 1) \o "x"

\* the strings of at most n characters of S
RECURSIVE Strings(_, _)
Strings(S, n) ==
    IF n = 0 THEN {""}
    ELSE LET shorter == Strings(S, n - 1) IN
         shorter \cup {str \o c : str \in shorter, c \in S}

NameChars == {"a", "B", "!", "\n"}
Names   == Strings(NameChars, MaxNameLen)
Descs   == {"", Str(DescLimit), Str(DescLimit + 1)}
Scalars == {"", "1"}
Lists   == {[i \in 1..k |-> "s"] : k \in 0..MaxSrc}

\* keys whose value is a list
ListKeys == {"source"} \cup Range(ChecksumFields)

\* marks a key the mapping does not hold, while a mapping is being built
Missing(k) == IF k \in ListKeys THEN <<"<missing>">> ELSE "<missing>"

MkData(f) == [k \in {key \in DOMAIN f : f[key] # Missing(key)} |-> f[k]]

\* a mapping every rule of validate() accepts
Good ==
    [k \in Keys |->
        CASE k = "name" -> "a"
          [] k = "description" -> Str(DescLimit)
          [] k \in {"version", "release", "licenses", "arch"} -> "1"
          [] OTHER -> <<>>]

RequiredChoices ==
    [name        : Names \cup {Missing("name")},
     description : Descs \cup {Missing("description")},
     version     : Scalars \cup {Missing("version")},
     release     : Scalars \cup {Missing("release")},
     licenses    : Scalars \cup {Missing("licenses")},
     arch        : Scalars \cup {Missing("arch")}]

SourceConfigs ==
    { [k \in ListKeys |-> <<>>],
      [k \in ListKeys |-> IF k \in {"source", "md5sums"} THEN <<"s">> ELSE <<>>],
      [k \in ListKeys |-> Missing(k)] }

ChecksumChoices ==
    [source     : Lists \cup {Missing("source")},
     md5sums    : Lists \cup {Missing("md5sums")},
     sha1sums   : Lists \cup {Missing("sha1sums")},
     sha256sums : Lists \cup {Missing("sha256sums")},
     sha384sums : Lists \cup {Missing("sha384sums")},
     sha512sums : Lists \cup {Missing("sha512sums")}]

\* every combination of the required fields, over three source settings
SliceRequired ==
    { MkData([k \in Keys |->
                 IF k \in DOMAIN r THEN r[k] ELSE c[k]]) :
         r \in RequiredChoices, c \in SourceConfigs }

\* every combination of source and the checksum fields, the rest well-formed
SliceChecksums ==
    { MkData([k \in Keys |-> IF k \in DOMAIN c THEN c[k] ELSE Good[k]]) :
         c \in ChecksumChoices }

InputMappings == SliceRequired \cup SliceChecksums

\* mappings a finished load() leaves in self._data
LoadedMappings ==
    { Good,
      [Good EXCEPT !["source"] = <<"s">>, !["md5sums"] = <<"s">>],
      [k \in Keys \ {"source"} |-> Good[k]],
      [k \in {} |-> ""] }

\* values a caller writes through __setitem__
WriteValues(key) ==
    CASE key = "name" -> {"", "a", "B", "!"}
      [] key = "description" -> {"", Str(DescLimit + 1)}
      [] key \in {"version", "release", "licenses", "arch"} -> Scalars
      [] OTHER -> {<<>>, <<"s">>}

(***************************************************************************)
(* The instance after construction, and its methods.                       *)
(***************************************************************************)
Ret(op, exc, value) == [op |-> op, exc |-> exc, value |-> value]

\* __init__, lines 13-21
Fresh ==
    /\ _validated = FALSE
    /\ _is_valid = FALSE
    /\ _errors = <<>>
    /\ _warnings = <<>>
    /\ ret = Ret("__init__", "none", FALSE)
    /\ verdicts = <<>>
    /\ writes = 0
    /\ validates = 0
    /\ queries = 0

\* load() has returned
Loaded ==
    /\ pc = "done"
    /\ file = [archive |-> FALSE, openable |-> TRUE, members |-> <<>>]
    /\ evaluator = [starts |-> TRUE, output |-> <<>>]
    /\ fs = {}
    /\ is_temporary = FALSE
    /\ child = "exited"
    /\ written = 0
    /\ pipe = <<>>
    /\ lines = <<>>

Init ==
    /\ _data \in LoadedMappings
    /\ Fresh
    /\ Loaded

\* validate() called by the caller
Validate ==
    /\ pc = "done"
    /\ validates < MaxValidate
    /\ LET v == validate(_data, _validated, _is_valid, _errors, _warnings) IN
        /\ _errors' = v.errors
        /\ _warnings' = v.warnings
        /\ _validated' = v.validated
        /\ _is_valid' = v.is_valid
        /\ ret' = Ret("validate", v.exc, FALSE)
    /\ validates' = validates + 1
    /\ UNCHANGED <<_data, verdicts, writes, queries, loadvars>>

\* is_valid() called by the caller
IsValid ==
    /\ pc = "done"
    /\ queries < MaxQueries
    /\ LET v == IF NeedsValidation(_validated)
                THEN validate(_data, _validated, _is_valid, _errors, _warnings)
                ELSE [errors |-> _errors, warnings |-> _warnings,
                      exc |-> "none", validated |-> _validated,
                      is_valid |-> _is_valid]
       IN
        /\ _errors' = v.errors
        /\ _warnings' = v.warnings
        /\ _validated' = v.validated
        /\ _is_valid' = v.is_valid
        /\ ret' = Ret("is_valid", v.exc, IF v.exc = "none" THEN v.is_valid ELSE FALSE)
        /\ verdicts' = IF v.exc = "none" THEN Append(verdicts, v.is_valid)
                       ELSE verdicts
    /\ queries' = queries + 1
    /\ UNCHANGED <<_data, writes, validates, loadvars>>

\* __setitem__(key, value)
SetItem ==
    /\ pc = "done"
    /\ writes < MaxWrites
    /\ \E key \in Keys : \E value \in WriteValues(key) :
        _data' = [k \in DOMAIN _data \cup {key} |->
                     IF k = key THEN value ELSE _data[k]]
    /\ ret' = Ret("__setitem__", "none", FALSE)
    /\ writes' = writes + 1
    /\ UNCHANGED <<_validated, _is_valid, _errors, _warnings,
                   verdicts, validates, queries, loadvars>>

Next == Validate \/ IsValid \/ SetItem

Spec == Init /\ [][Next]_vars

(***************************************************************************)
(* validate() as a function of the mapping: one first call, by either      *)
(* entry point, on each enumerated mapping.                                *)
(***************************************************************************)
InitValidate ==
    /\ _data \in InputMappings
    /\ Fresh
    /\ Loaded

FirstValidate == validates + queries = 0 /\ Validate

FirstIsValid == validates + queries = 0 /\ IsValid

NextValidate == FirstValidate \/ FirstIsValid

ValidateSpec == InitValidate /\ [][NextValidate]_vars

(***************************************************************************)
(* load(), lines 25-74, with the evaluator subprocess and its stdout pipe. *)
(***************************************************************************)
\* archive member names, as path pieces; member.find("PKGBUILD") >= 0 holds
\* when a piece is the text PKGBUILD
MemberNames == {<<"PKGBUILD">>, <<"pkg/", "PKGBUILD", ".orig">>, <<"README">>}

Contains(member, text) == \E i \in DOMAIN member : member[i] = text

\* lines 41-45: the first member whose name contains PKGBUILD, or none
ToExtract(members) ==
    LET hits == {i \in DOMAIN members : Contains(members[i], "PKGBUILD")} IN
    IF hits = {} THEN <<>>
    ELSE members[CHOOSE i \in hits : \A j \in hits : i <= j]

\* one line of evaluator output: an expression dict(...) accepts, giving one
\* key and value, or text that exec cannot evaluate
Malformed == [ok |-> FALSE, key |-> "", value |-> <<>>]
OutputLines ==
    { [ok |-> TRUE, key |-> "name", value |-> "a"],
      [ok |-> TRUE, key |-> "source", value |-> <<"s">>],
      Malformed }

Files ==
    {[archive |-> FALSE, openable |-> TRUE, members |-> <<>>]}
    \cup [archive : {TRUE}, openable : BOOLEAN,
          members : Seqs(MemberNames, MaxMembers)]

Evaluators == [starts : BOOLEAN, output : Seqs(OutputLines, MaxLines)]

InitLoad ==
    /\ _data = [k \in {} |-> ""]
    /\ Fresh
    /\ pc = "start"
    /\ file \in Files
    /\ evaluator \in Evaluators
    /\ fs = {}
    /\ is_temporary = FALSE
    /\ child = "none"
    /\ written = 0
    /\ pipe = <<>>
    /\ lines = <<>>

Raise(exc) ==
    /\ pc' = "raised"
    /\ ret' = Ret("load", exc, FALSE)

\* lines 33-52: open the archive, find the PKGBUILD, extract it
Extract ==
    /\ pc = "start"
    /\ IF ~file.archive
       THEN pc' = "spawn" /\ UNCHANGED <<ret, fs, is_temporary>>
       ELSE IF ~file.openable
       THEN Raise("IOError") /\ UNCHANGED <<fs, is_temporary>>
       ELSE IF ToExtract(file.members) = <<>>
       THEN Raise("InvalidPackage") /\ UNCHANGED <<fs, is_temporary>>
       ELSE /\ fs' = {"directory", "file"}
            /\ is_temporary' = TRUE
            /\ pc' = "spawn"
            /\ UNCHANGED ret
    /\ UNCHANGED <<pkgvars, verdicts, writes, validates, queries,
                   file, evaluator, child, written, pipe, lines>>

\* lines 61-63: subprocess.Popen([...], stdout=PIPE, cwd=working_dir)
Spawn ==
    /\ pc = "spawn"
    /\ IF evaluator.starts
       THEN child' = "running" /\ pc' = "wait" /\ UNCHANGED ret
       ELSE Raise("OSError") /\ UNCHANGED child
    /\ UNCHANGED <<pkgvars, verdicts, writes, validates, queries,
                   file, evaluator, fs, is_temporary, written, pipe, lines>>

\* the child writes its next line; the write blocks while the pipe is full
ChildWrite ==
    /\ child = "running"
    /\ written < Len(evaluator.output)
    /\ Len(pipe) < PipeCap
    /\ pipe' = Append(pipe, evaluator.output[written + 1])
    /\ written' = written + 1
    /\ UNCHANGED <<pkgvars, obsvars, pc, file, evaluator, fs, is_temporary,
                   child, lines>>

\* the child has written everything and exits, closing its end of the pipe
ChildExit ==
    /\ child = "running"
    /\ written = Len(evaluator.output)
    /\ child' = "exited"
    /\ UNCHANGED <<pkgvars, obsvars, pc, file, evaluator, fs, is_temporary,
                   written, pipe, lines>>

\* line 64: process.wait() returns once the child has exited
Wait ==
    /\ pc = "wait"
    /\ child = "exited"
    /\ pc' = "read"
    /\ UNCHANGED <<pkgvars, obsvars, file, evaluator, fs, is_temporary,
                   child, written, pipe, lines>>

\* line 67: process.stdout.readlines() reads the pipe to end of file
ReadLines ==
    /\ pc = "read"
    /\ child = "exited"
    /\ lines' = pipe
    /\ pipe' = <<>>
    /\ pc' = "exec"
    /\ UNCHANGED <<pkgvars, obsvars, file, evaluator, fs, is_temporary,
                   child, written>>

\* lines 68-69: exec 'temp = dict(' + expression + ')'; self._data.update(temp)
ExecLine ==
    /\ pc = "exec"
    /\ lines # <<>>
    /\ LET expression == Head(lines) IN
       IF expression.ok
       THEN /\ _data' = [k \in DOMAIN _data \cup {expression.key} |->
                            IF k = expression.key THEN expression.value
                            ELSE _data[k]]
            /\ lines' = Tail(lines)
            /\ UNCHANGED <<pc, ret>>
       ELSE Raise("SyntaxError") /\ UNCHANGED <<_data, lines>>
    /\ UNCHANGED <<_validated, _is_valid, _errors, _warnings,
                   verdicts, writes, validates, queries,
                   file, evaluator, fs, is_temporary, child, written, pipe>>

\* lines 72-74: if is_temporary: os.remove(file); the directory is left
Cleanup ==
    /\ pc = "exec"
    /\ lines = <<>>
    /\ fs' = IF is_temporary THEN fs \ {"file"} ELSE fs
    /\ pc' = "done"
    /\ ret' = Ret("load", "none", FALSE)
    /\ UNCHANGED <<pkgvars, verdicts, writes, validates, queries,
                   file, evaluator, is_temporary, child, written, pipe, lines>>

NextLoad ==
    \/ Extract
    \/ Spawn
    \/ ChildWrite
    \/ ChildExit
    \/ Wait
    \/ ReadLines
    \/ ExecLine
    \/ Cleanup

LoadSpec == InitLoad /\ [][NextLoad]_vars

(***************************************************************************)
(* Vocabulary of the claims.                                               *)
(***************************************************************************)
\* the first validate() or is_valid() call on the instance has been made
Called == ret.op \in {"validate", "is_valid"}

Present(d, k) == k \in DOMAIN d

\* the name consists of one or more characters of [A-Za-z0-9_-], nothing else
FullMatch(name) ==
    Len(name) >= 1 /\ \A i \in 1..Len(name) : Char(name, i) \in WordClass

HasUpper(name) == \E i \in 1..Len(name) : Char(name, i) \in UpperChars

\* required fields that are absent or falsy
MissingRequired(d) ==
    {f \in Range(_required_fields) : ~Present(d, f) \/ ~Truthy(d[f])}

SourceLen(d) == IF Present(d, "source") THEN Len(d["source"]) ELSE 0

\* what the checksum rules are claimed to report for field c
AmountExpected(d, c) == Present(d, c) /\ Len(d[c]) # SourceLen(d)

NoSumsExpected(d) ==
    /\ SourceLen(d) > 0
    /\ \A c \in Range(ChecksumFields) : ~Present(d, c)

\* the same two rules with "present" read as "present and non-empty"
AmountDue(d, c) ==
    /\ Present(d, c) /\ Truthy(d[c])
    /\ Present(d, "source") /\ Len(d[c]) # Len(d["source"])

NoSumsDue(d) ==
    /\ Present(d, "source") /\ Truthy(d["source"])
    /\ \A c \in Range(ChecksumFields) : Present(d, c) /\ ~Truthy(d[c])

\* source and the five checksum fields are keys of the mapping, every
\* non-empty checksum list is as long as source, and sources have one
SumsPresentAndMatching(d) ==
    /\ Present(d, "source")
    /\ \A c \in Range(ChecksumFields) :
          Present(d, c) /\ (Truthy(d[c]) => Len(d[c]) = Len(d["source"]))
    /\ Truthy(d["source"]) =>
          \E c \in Range(ChecksumFields) : Truthy(d[c])

Count(seq, x) == Cardinality({i \in DOMAIN seq : seq[i] = x})

\* the verdict a first validation of d gives
FreshVerdict(d) ==
    LET v == validate(d, FALSE, FALSE, <<>>, <<>>) IN
    v.exc = "none" /\ v.is_valid

(***************************************************************************)
(* Claims about the instance's life (Spec).                                *)
(***************************************************************************)
\* C1: in every reachable state the cached validity flag is true if and only
\* if the errors list is empty: once validated, _is_valid <=> no errors, and
\* has_errors() never holds while the flag is true.
C1_FlagIffNoErrors ==
    /\ _is_valid => ~has_errors(_errors)
    /\ _validated => (_is_valid <=> ~has_errors(_errors))

\* C2: once validate() has run, no further call changes the errors list, the
\* warnings list or the validity flag.
C2_SinglePass ==
    [][_validated =>
          /\ _errors' = _errors
          /\ _warnings' = _warnings
          /\ _is_valid' = _is_valid]_vars

\* C3: once is_valid() has returned a verdict, every later is_valid() call,
\* whatever was written to the fields in between, returns that same verdict
\* and leaves the errors and warnings lists as they were.
C3_MemoizedVerdict ==
    [][(Len(verdicts) >= 1 /\ queries' = queries + 1) =>
          /\ ret'.exc = "none"
          /\ verdicts' = Append(verdicts, verdicts[1])
          /\ _errors' = _errors
          /\ _warnings' = _warnings]_vars

\* C3 witness: is_valid() returned twice, with no validate() call, and a
\* write between the two calls left a mapping whose fresh verdict is the
\* opposite of the one returned.
C3_Witness ==
    /\ ret.op = "is_valid"
    /\ queries = 2
    /\ Len(verdicts) = 2
    /\ validates = 0
    /\ writes >= 1
    /\ FreshVerdict(_data) # verdicts[1]

(***************************************************************************)
(* Claims about one validation of a mapping (ValidateSpec).                *)
(***************************************************************************)
\* C4: when a non-empty set M of required fields is missing or falsy and
\* everything else is well-formed, one pass reports exactly |M| errors and
\* the package is not valid.
C4_OneErrorPerMissing ==
    (/\ Called
     /\ MissingRequired(_data) # {}
     /\ (Present(_data, "name") /\ Truthy(_data["name"]))
           => FullMatch(_data["name"])
     /\ (Present(_data, "description") /\ Truthy(_data["description"]))
           => Len(_data["description"]) <= DescLimit
     /\ SumsPresentAndMatching(_data))
    => /\ ret.exc = "none"
       /\ Len(_errors) = Cardinality(MissingRequired(_data))
       /\ ~_is_valid

C6_NameRules ==
    (/\ Called
     /\ MissingRequired(_data) = {}
     /\ Len(_data["description"]) <= DescLimit
     /\ SumsPresentAndMatching(_data))
    => IF FullMatch(_data["name"])
       THEN /\ _errors = <<>>
            /\ Count(_warnings, LowerMsg) =
                  (IF HasUpper(_data["name"]) THEN 1 ELSE 0)
       ELSE /\ Len(_errors) = 1
            /\ Count(_warnings, LowerMsg) = 0

C8_NeverAborts ==
    Called => (ret.exc = "none" /\ _validated)

(***************************************************************************)
(* Claims about load() (LoadSpec).                                         *)
(***************************************************************************)
\* C9: the extracted temporary file is gone on every exit of load(), normal
\* or by an exception.
C9_TempFileRemoved ==
    pc \in {"done", "raised"} => "file" \notin fs

\* C10: the parent never waits for the child's exit while the child is
\* blocked writing to a full pipe that nobody reads.
C10_NoPipeDeadlock ==
    ~(/\ pc = "wait"
      /\ child = "running"
      /\ written < Len(evaluator.output)
      /\ Len(pipe) = PipeCap)

====
